---- MODULE Spec2Model ----
(***************************************************************************)
(* A model of the ledger engine of QR-Vote (src/src/qrvote.py): canonical  *)
(* block hashing, add_vote, validate_chain, merge_chains and prune_chain.  *)
(*                                                                         *)
(* A block is a Python dict and is modelled as a function from the keys it *)
(* carries to their values, so that `"vote" in block` is                   *)
(* "vote" \in DOMAIN block.  A chain is a sequence of blocks.  Timestamps  *)
(* and election end times are ISO-8601 strings in the program; the model   *)
(* keeps only their order and writes them as naturals.  SHA-256 is taken   *)
(* to be collision free: the digest of a byte string is that string in a   *)
(* "sha256(...)" wrapper.                                                  *)
(***************************************************************************)
EXTENDS Integers, Sequences, FiniteSets, TLC

VARIABLES
    chain,          \* the chain an operation is applied to (main's `chain`)
    local_chain,    \* merge_chains' first argument
    gist_chain,     \* merge_chains' second argument
    now,            \* the clock read by datetime.utcnow()
    pc,             \* the operation that was applied last
    arg,            \* the arguments of that operation
    ret,            \* what that operation returned (or that it raised)
    sequential,     \* every block appended so far was linked to the chain's tail
    ELECTION_END_TIME,  \* the global of that name
    validated,      \* the chains validate_chain was applied to in a run of main
    online          \* main's `g and gist`: a gist holds the chain

vars == <<chain, local_chain, gist_chain, now, pc, arg, ret, sequential,
          ELECTION_END_TIME, validated, online>>

\* the variables only a run of main changes
mainvars == <<ELECTION_END_TIME, validated, online>>

(* ------------------------------ bounds -------------------------------- *)

\* the largest number of vote blocks of a chain given to validate/prune
MaxChain == 3
\* the largest number of vote blocks of a chain given to merge_chains
MaxMerge == 2
\* timestamps are drawn from 1..MaxTime
MaxTime == 2
\* the largest number of votes appended in a run
MaxAppends == 3

Votes == {"A", "B"}
Timestamps == 1..MaxTime

(* --------------------------- Python values ---------------------------- *)

\* the sentinel the first vote block links to
genesis_hash == "genesis_hash"

\* the values the test suite uses for a link and a digest that match nothing
wrong_hash == "wrong_hash"
fake_hash == "fake_hash"

\* None, where a time is expected
None == 0

\* a call that returned v, and a call that raised
Return(v) == [raised |-> FALSE, value |-> v]
Raise(e) == [raised |-> TRUE, error |-> e]

\* block[k] = v
SetItem(block, k, v) ==
    [x \in (DOMAIN block) \cup {k} |-> IF x = k THEN v ELSE block[x]]

\* the dict left by block.pop(k)
Pop(block, k) == [x \in (DOMAIN block) \ {k} |-> block[x]]

IsMetadata(block) == "election_end_time" \in DOMAIN block
IsVote(block) == "vote" \in DOMAIN block

\* the chain starts with a metadata block
HasMetadata(c) == c # <<>> /\ IsMetadata(c[1])

\* chain[1:]
Rest(c) == IF c = <<>> THEN <<>> ELSE Tail(c)

(* ---------------------------- hash_block ------------------------------ *)

\* the keys a block can carry, in the order sort_keys=True writes them
SortedKeys == <<"election_end_time", "hash", "prev_hash", "timestamp", "vote">>

json_value(block, k) ==
    IF k \in {"timestamp", "election_end_time"}
    THEN "\"" \o ToString(block[k]) \o "\""
    ELSE "\"" \o block[k] \o "\""

RECURSIVE json_items(_, _)
json_items(block, keys) ==
    IF keys = <<>> THEN ""
    ELSE LET k == Head(keys)
             rest == json_items(block, Tail(keys))
         IN IF k \in DOMAIN block
            THEN "\"" \o k \o "\": " \o json_value(block, k)
                 \o (IF rest = "" THEN "" ELSE ", ") \o rest
            ELSE rest

\* json.dumps(block, sort_keys=True)
json_dumps(block) == "{" \o json_items(block, SortedKeys) \o "}"

\* hashlib.sha256(s).hexdigest()
sha256(s) == "sha256(" \o s \o ")"

hash_block(block) == sha256(json_dumps(block))

(* ----------------------------- add_vote ------------------------------- *)

add_vote_hashed_before_timestamp(candidate, prev_hash) ==
    LET block == [vote |-> candidate, prev_hash |-> prev_hash]
    IN SetItem(SetItem(block, "timestamp", now), "hash", hash_block(block))

add_vote(candidate, prev_hash) ==
    LET block == [vote |-> candidate, timestamp |-> now, prev_hash |-> prev_hash]
    IN SetItem(block, "hash", hash_block(block))

(* -------------------------- validate_chain ---------------------------- *)

Verdict(ok, msg) == [is_valid |-> ok, message |-> msg]

\* the except clause of validate_chain
ValidationError == Verdict(FALSE, "Validation error")

\* the test of the first vote block, made after the loop
validate_genesis(vote_blocks) ==
    IF "prev_hash" \notin DOMAIN vote_blocks[1] THEN ValidationError
    ELSE IF vote_blocks[1].prev_hash # genesis_hash
         THEN Verdict(FALSE, "Invalid genesis hash at block 1")
         ELSE Verdict(TRUE, "Chain is valid")

\* the loop over vote_blocks[1:]; i is the 1-based position of the block
\* under examination, which the messages call block i
RECURSIVE validate_loop(_, _)
validate_loop(vote_blocks, i) ==
    IF i > Len(vote_blocks) THEN validate_genesis(vote_blocks)
    ELSE LET block == vote_blocks[i]
             prev_block == vote_blocks[i - 1]
         IN IF "prev_hash" \notin DOMAIN block \/ "hash" \notin DOMAIN prev_block
            THEN ValidationError
            ELSE IF block.prev_hash # prev_block.hash
            THEN Verdict(FALSE, "Invalid previous hash at block " \o ToString(i))
            ELSE IF "hash" \notin DOMAIN block
            THEN ValidationError
            ELSE IF block.hash # hash_block(Pop(block, "hash"))
            THEN Verdict(FALSE, "Invalid hash at block " \o ToString(i))
            ELSE validate_loop(vote_blocks, i + 1)

validate_chain(c) ==
    IF Len(c) < 2 THEN Verdict(TRUE, "Chain is valid (no votes yet)")
    ELSE LET vote_blocks == SelectSeq(Rest(c), IsVote)
         IN IF vote_blocks = <<>>
            THEN Verdict(TRUE, "Chain is valid (no vote blocks)")
            ELSE validate_loop(vote_blocks, 2)

(* ---------------------------- prune_chain ----------------------------- *)

\* the rebuilding loop: block i is linked to the block before it as that
\* block stands after its own rebuild, and then hashed as it stands, its old
\* hash entry included
RECURSIVE prune_rebuild(_, _)
prune_rebuild(remaining_chain, i) ==
    IF i > Len(remaining_chain) THEN remaining_chain
    ELSE LET relinked == SetItem(remaining_chain[i], "prev_hash",
                                 remaining_chain[i - 1].hash)
             rehashed == SetItem(relinked, "hash", hash_block(relinked))
         IN prune_rebuild([remaining_chain EXCEPT ![i] = rehashed], i + 1)

prune_chain(c, vote_to_remove) ==
    IF Len(c) < 2 THEN Return(c)
    ELSE IF \E i \in 2..Len(c) : ~IsVote(c[i]) THEN Raise("KeyError: 'vote'")
    ELSE LET keep(block) == block.vote # vote_to_remove
             remaining_chain == <<c[1]>> \o SelectSeq(Rest(c), keep)
         IN IF Len(remaining_chain) <= 1 THEN Return(remaining_chain)
            ELSE IF "hash" \notin DOMAIN remaining_chain[1]
            THEN Raise("KeyError: 'hash'")
            ELSE Return(prune_rebuild(remaining_chain, 2))

(* -------------------------- get_vote_counts --------------------------- *)

\* the dict counts: a key for every vote carried by a block of chain[1:]
get_vote_counts(c) ==
    LET counted == SelectSeq(Rest(c), IsVote)
    IN Return([v \in {counted[i].vote : i \in 1..Len(counted)} |->
                  Cardinality({i \in 1..Len(counted) : counted[i].vote = v})])

(* ---------------------------- merge_chains ---------------------------- *)

\* the chain the metadata block is looked for in
merge_base(local, gist) == IF gist # <<>> THEN gist ELSE local

\* the metadata block that is kept: <<>> stands for None
merge_metadata(base_chain) ==
    IF base_chain # <<>> /\ IsMetadata(base_chain[1])
    THEN <<base_chain[1]>> ELSE <<>>

\* merge_combined without its test that the two chains differ
merge_combined_always_joined(local, gist) ==
    LET fresh(b) == \A i \in 1..Len(Rest(gist)) : Rest(gist)[i] # b
    IN Rest(gist) \o SelectSeq(Rest(local), fresh)

\* the blocks that are merged, the gist's first
merge_combined(local, gist) ==
    IF local # <<>> /\ gist # <<>> /\ local # gist
    THEN LET fresh(b) == \A i \in 1..Len(Rest(gist)) : Rest(gist)[i] # b
         IN Rest(gist) \o SelectSeq(Rest(local), fresh)
    ELSE LET base_chain == merge_base(local, gist)
         IN IF merge_metadata(base_chain) # <<>> THEN Rest(base_chain)
            ELSE base_chain

block_key(block) == <<block.vote, block.timestamp>>

\* the first block of every (vote, timestamp) key, blocks without a vote dropped
RECURSIVE merge_unique(_, _)
merge_unique(combined_chain, seen) ==
    IF combined_chain = <<>> THEN <<>>
    ELSE LET block == Head(combined_chain)
         IN IF IsVote(block) /\ block_key(block) \notin seen
            THEN <<block>> \o merge_unique(Tail(combined_chain),
                                           seen \cup {block_key(block)})
            ELSE merge_unique(Tail(combined_chain), seen)

\* sorted(unique_chain, key=timestamp): Python's sort is stable
RECURSIVE sorted_by_timestamp(_)
sorted_by_timestamp(s) ==
    IF s = <<>> THEN <<>>
    ELSE LET front == sorted_by_timestamp(SubSeq(s, 1, Len(s) - 1))
             x == s[Len(s)]
             k == Cardinality({i \in 1..Len(front) :
                                  front[i].timestamp <= x.timestamp})
         IN SubSeq(front, 1, k) \o <<x>> \o SubSeq(front, k + 1, Len(front))

\* merge_relink with the hash of every relinked block computed anew
merge_relink_rehashed(unique_chain) ==
    [i \in 1..Len(unique_chain) |->
        IF i > 1 /\ ("prev_hash" \notin DOMAIN unique_chain[i]
                     \/ unique_chain[i].prev_hash # unique_chain[i - 1].hash)
        THEN LET relinked == SetItem(unique_chain[i], "prev_hash",
                                     unique_chain[i - 1].hash)
             IN SetItem(relinked, "hash", hash_block(Pop(relinked, "hash")))
        ELSE unique_chain[i]]

\* the relinking of every block after the first to the block before it
merge_relink(unique_chain) ==
    [i \in 1..Len(unique_chain) |->
        IF i > 1 /\ ("prev_hash" \notin DOMAIN unique_chain[i]
                     \/ unique_chain[i].prev_hash # unique_chain[i - 1].hash)
        THEN SetItem(unique_chain[i], "prev_hash", unique_chain[i - 1].hash)
        ELSE unique_chain[i]]

\* merge_relink_first without its assignment
merge_relink_first_skipped(unique_chain) == unique_chain

\* the first block is linked to the sentinel
merge_relink_first(unique_chain) ==
    IF unique_chain # <<>> /\ unique_chain[1].prev_hash # genesis_hash
    THEN [unique_chain EXCEPT ![1] = SetItem(@, "prev_hash", genesis_hash)]
    ELSE unique_chain

merge_chains(local, gist) ==
    IF gist = <<>> /\ local = <<>> THEN Return(<<>>)
    ELSE
    LET metadata == merge_metadata(merge_base(local, gist))
        combined_chain == merge_combined(local, gist)
    IN  IF combined_chain = <<>> THEN Return(metadata)
        ELSE IF \E i \in 1..Len(combined_chain) :
                    /\ IsVote(combined_chain[i])
                    /\ "timestamp" \notin DOMAIN combined_chain[i]
        THEN Raise("KeyError: 'timestamp'")
        ELSE
        LET unique_chain == sorted_by_timestamp(merge_unique(combined_chain, {}))
        IN  IF \E i \in 1..(Len(unique_chain) - 1) :
                   "hash" \notin DOMAIN unique_chain[i]
            THEN Raise("KeyError: 'hash'")
            ELSE IF unique_chain # <<>>
                    /\ "prev_hash" \notin DOMAIN unique_chain[1]
            THEN Raise("KeyError: 'prev_hash'")
            ELSE Return(metadata
                        \o merge_relink_first(merge_relink(unique_chain)))

\* merge_chains works on the blocks of its arguments themselves, not on
\* copies: the positions of local whose block is taken into combined_chain
merge_taken(local, gist) ==
    IF local # <<>> /\ gist # <<>> /\ local # gist
    THEN {j \in 2..Len(local) :
             \A i \in 1..Len(Rest(gist)) : Rest(gist)[i] # local[j]}
    ELSE IF gist = <<>>
         THEN (IF HasMetadata(local) THEN 2 ELSE 1)..Len(local)
         ELSE {}

\* the positions of local whose block is put into unique_chain: it has a vote
\* and it is the first block of combined_chain with its key
merge_kept(local, gist) ==
    {j \in merge_taken(local, gist) :
        /\ IsVote(local[j])
        /\ \A i \in merge_taken(local, gist) :
              i < j /\ IsVote(local[i]) => block_key(local[i]) # block_key(local[j])
        /\ (local # <<>> /\ gist # <<>> /\ local # gist) =>
              \A i \in 1..Len(Rest(gist)) :
                  IsVote(Rest(gist)[i]) =>
                      block_key(Rest(gist)[i]) # block_key(local[j])}

\* local_chain as the caller finds it after merge_chains(local, gist) has
\* returned merged: the blocks put into unique_chain carry the prev_hash
\* they were given there (lines 302-306)
merge_leaves_local(local, gist, merged) ==
    [j \in 1..Len(local) |->
        IF j \in merge_kept(local, gist)
        THEN CHOOSE b \in {merged[i] : i \in 1..Len(merged)} :
                 IsVote(b) /\ block_key(b) = block_key(local[j])
        ELSE local[j]]

(* -------------------------- sync_local_chain -------------------------- *)

\* the steps of the try block that can fail, and "none"
SyncFailures == {"none", "read", "write", "log"}

\* sync_local_chain(g, gist, local_chain) with g and gist set when g_and_gist;
\* the caller's list is left as merge_chains leaves it
sync_local_chain(g_and_gist, local, gist, failure) ==
    IF ~g_and_gist \/ failure = "read"
    THEN [local_chain |-> local, result |-> Return(local)]
    ELSE LET merged_chain == merge_chains(local, gist).value
             after == merge_leaves_local(local, gist, merged_chain)
         IN IF failure = "none"
            THEN [local_chain |-> after, result |-> Return(merged_chain)]
            ELSE [local_chain |-> after, result |-> Return(after)]

(* --------------------- the prev_hash main passes ---------------------- *)

\* the prev_hash main gives add_vote
main_prev_hash(c) ==
    IF c # <<>> /\ Len(c) > 1 /\ "hash" \in DOMAIN c[Len(c)]
    THEN c[Len(c)].hash ELSE genesis_hash

(* ------------------------------ inputs -------------------------------- *)

Metadata(e) == [election_end_time |-> e]

\* a vote block whose hash is its digest (good) or matches nothing
MakeBlock(v, t, p, good) ==
    LET block == [vote |-> v, timestamp |-> t, prev_hash |-> p]
    IN SetItem(block, "hash", IF good THEN hash_block(block) ELSE fake_hash)

\* the link a block appended to the vote blocks c is expected to carry
TailLink(c) == IF c = <<>> THEN genesis_hash ELSE c[Len(c)].hash

\* what is drawn for one vote block: its vote, its timestamp, whether it is
\* linked to the block before it and whether its hash is its digest
BlockChoices == Votes \X Timestamps \X BOOLEAN \X BOOLEAN

\* the first n vote blocks drawn by choices
RECURSIVE BuildVotes(_, _)
BuildVotes(choices, n) ==
    IF n = 0 THEN <<>>
    ELSE LET c == BuildVotes(choices, n - 1)
             x == choices[n]
         IN Append(c, MakeBlock(x[1], x[2],
                                IF x[3] THEN TailLink(c) ELSE wrong_hash, x[4]))

\* the timestamps drawn are in ascending order
Ascending(choices) ==
    \A i \in 1..(Len(choices) - 1) : choices[i][2] <= choices[i + 1][2]

\* every block drawn is linked and hashed rightly
Linked(choices) == \A i \in 1..Len(choices) : choices[i][3] /\ choices[i][4]

\* no metadata block (<<>>) or the metadata block with end time e
MetadataChoices(ends) == {<<>>} \cup {<<Metadata(e)>> : e \in ends}

(* ------------------- validate_chain and prune_chain ------------------- *)

InitChain ==
    /\ \E n \in 0..MaxChain : \E choices \in [1..n -> BlockChoices] :
          \E metadata \in MetadataChoices({MaxTime}) :
             /\ Ascending(choices)
             /\ chain = metadata \o BuildVotes(choices, n)
    /\ local_chain = <<>>
    /\ gist_chain = <<>>
    /\ now = 0
    /\ pc = "start"
    /\ arg = <<>>
    /\ ret = Return(<<>>)
    /\ sequential = FALSE
    /\ ELECTION_END_TIME = None
    /\ validated = {}
    /\ online = FALSE

Validate ==
    /\ pc = "start"
    /\ pc' = "validate"
    /\ arg' = <<>>
    /\ ret' = validate_chain(chain)
    /\ UNCHANGED <<chain, local_chain, gist_chain, now, sequential>>
    /\ UNCHANGED mainvars

Prune(vote_to_remove) ==
    /\ pc = "start"
    /\ pc' = "prune"
    /\ arg' = vote_to_remove
    /\ ret' = prune_chain(chain, vote_to_remove)
    /\ UNCHANGED <<chain, local_chain, gist_chain, now, sequential>>
    /\ UNCHANGED mainvars

GetVoteCounts ==
    /\ pc = "start"
    /\ pc' = "counts"
    /\ arg' = <<>>
    /\ ret' = get_vote_counts(chain)
    /\ UNCHANGED <<chain, local_chain, gist_chain, now, sequential>>
    /\ UNCHANGED mainvars

\* the values a field of a persisted block can be overwritten with
FieldValues(k) ==
    IF k = "vote" THEN Votes
    ELSE IF k = "timestamp" THEN Timestamps
    ELSE {genesis_hash, wrong_hash, fake_hash}

\* one field of one vote block of a chain that validated is overwritten in
\* the persisted file, and the chain is validated again
Tamper(i, k, v) ==
    /\ pc = "validate"
    /\ ret.is_valid
    /\ i \in 1..Len(chain)
    /\ IsVote(chain[i])
    /\ chain[i][k] # v
    /\ chain' = [chain EXCEPT ![i] = SetItem(@, k, v)]
    /\ pc' = "tamper"
    /\ arg' = <<i, k>>
    /\ ret' = validate_chain(chain')
    /\ UNCHANGED <<local_chain, gist_chain, now, sequential>>
    /\ UNCHANGED mainvars

NextChain ==
    \/ Validate
    \/ \E v \in Votes : Prune(v)
    \/ GetVoteCounts
    \/ \E i \in 1..(MaxChain + 1), k \in {"vote", "timestamp", "prev_hash", "hash"} :
          \E v \in FieldValues(k) : Tamper(i, k, v)

SpecChain == InitChain /\ [][NextChain]_vars

(* ------------------ validate_chain on defective blocks ---------------- *)

BlockFields == {"vote", "timestamp", "prev_hash", "hash"}

\* the positions of a chain where a vote block is expected: all of them but
\* that of the metadata block
VotePositions(c) == (IF HasMetadata(c) THEN 2 ELSE 1)..Len(c)

\* a chain as validate_chain may be handed it from a file: rightly linked and
\* hashed, but for one element at a vote position that lacks one field
InitFields ==
    /\ \E n \in 1..MaxChain : \E choices \in [1..n -> BlockChoices] :
          \E metadata \in MetadataChoices({MaxTime}) :
             LET whole == metadata \o BuildVotes(choices, n)
             IN \E i \in VotePositions(whole), k \in BlockFields :
                   /\ Ascending(choices) /\ Linked(choices)
                   /\ chain = [whole EXCEPT ![i] = Pop(@, k)]
    /\ local_chain = <<>>
    /\ gist_chain = <<>>
    /\ now = 0
    /\ pc = "start"
    /\ arg = <<>>
    /\ ret = Return(<<>>)
    /\ sequential = FALSE
    /\ ELECTION_END_TIME = None
    /\ validated = {}
    /\ online = FALSE

NextFields == Validate

SpecFields == InitFields /\ [][NextFields]_vars

(* ------------------------------ add_vote ------------------------------ *)

\* the vote values add_vote is called with: candidates, the empty string and
\* strings of whitespace
Candidates == Votes \cup {"", " ", "  "}

\* str.strip, on Candidates
strip(s) == IF s \in {"", " ", "  "} THEN "" ELSE s

\* add_vote is called beside a chain of rightly linked and hashed blocks
InitAdd ==
    /\ \E n \in 0..MaxChain : \E choices \in [1..n -> BlockChoices] :
          \E metadata \in MetadataChoices({MaxTime}) :
             /\ Ascending(choices) /\ Linked(choices)
             /\ chain = metadata \o BuildVotes(choices, n)
    /\ local_chain = <<>>
    /\ gist_chain = <<>>
    /\ now \in Timestamps
    /\ pc = "start"
    /\ arg = <<>>
    /\ ret = Return(<<>>)
    /\ sequential = FALSE
    /\ ELECTION_END_TIME = None
    /\ validated = {}
    /\ online = FALSE

AddVote(candidate, prev_hash) ==
    /\ pc = "start"
    /\ pc' = "add_vote"
    /\ arg' = <<candidate, prev_hash>>
    /\ ret' = Return(add_vote(candidate, prev_hash))
    /\ UNCHANGED <<chain, local_chain, gist_chain, now, sequential>>
    /\ UNCHANGED mainvars

NextAdd ==
    \E candidate \in Candidates :
        \E prev_hash \in {genesis_hash, wrong_hash, main_prev_hash(chain)} :
            AddVote(candidate, prev_hash)

SpecAdd == InitAdd /\ [][NextAdd]_vars

(* ---------------------------- merge_chains ---------------------------- *)

InitMerge ==
    /\ chain = <<>>
    /\ \E n \in 0..MaxMerge : \E choices \in [1..n -> BlockChoices] :
          \E metadata \in MetadataChoices({1}) :
             /\ Linked(choices)
             /\ local_chain = metadata \o BuildVotes(choices, n)
    /\ \E n \in 0..MaxMerge : \E choices \in [1..n -> BlockChoices] :
          \E metadata \in MetadataChoices({1, 2}) :
             /\ Linked(choices)
             /\ gist_chain = metadata \o BuildVotes(choices, n)
    /\ now = 0
    /\ pc = "start"
    /\ arg = <<>>
    /\ ret = Return(<<>>)
    /\ sequential = FALSE
    /\ ELECTION_END_TIME = None
    /\ validated = {}
    /\ online = FALSE

Merge ==
    /\ pc = "start"
    /\ pc' = "merge"
    /\ ret' = merge_chains(local_chain, gist_chain)
    /\ UNCHANGED <<chain, local_chain, gist_chain, now, arg, sequential>>
    /\ UNCHANGED mainvars

NextMerge == Merge

SpecMerge == InitMerge /\ [][NextMerge]_vars

(* -------------------------- sync_local_chain -------------------------- *)

\* the replicas are those of InitMerge, on which merge_chains returns
\* normally
Sync(g_and_gist, failure) ==
    /\ pc = "start"
    /\ pc' = "sync"
    /\ arg' = <<g_and_gist, failure>>
    /\ local_chain' =
          sync_local_chain(g_and_gist, local_chain, gist_chain, failure).local_chain
    /\ ret' = sync_local_chain(g_and_gist, local_chain, gist_chain, failure).result
    /\ UNCHANGED <<chain, gist_chain, now, sequential>>
    /\ UNCHANGED mainvars

NextSync == \E g_and_gist \in BOOLEAN, failure \in SyncFailures : Sync(g_and_gist, failure)

SpecSync == InitMerge /\ [][NextSync]_vars

(* ------------------------ votes appended by main ---------------------- *)

VoteCount(c) == Len(SelectSeq(c, IsVote))

InitVote ==
    /\ chain = <<>>
    /\ local_chain = <<>>
    /\ gist_chain = <<>>
    /\ now = 1
    /\ pc = "start"
    /\ arg = <<>>
    /\ ret = Return(<<>>)
    /\ sequential = TRUE
    /\ ELECTION_END_TIME = None
    /\ validated = {}
    /\ online = FALSE

\* time passes
Tick ==
    /\ now < MaxTime
    /\ now' = now + 1
    /\ UNCHANGED <<chain, local_chain, gist_chain, pc, arg, ret, sequential>>
    /\ UNCHANGED mainvars

\* main, run with --elec on a chain of at most one block that has no
\* metadata block, puts one in front
InsertMetadata(e) ==
    /\ Len(chain) <= 1
    /\ ~HasMetadata(chain)
    /\ chain' = <<Metadata(e)>> \o chain
    /\ pc' = "elec"
    /\ UNCHANGED <<local_chain, gist_chain, now, arg, ret, sequential>>
    /\ UNCHANGED mainvars

\* the prev_hash values a caller of add_vote links a new block with
PrevHashChoices(c) ==
    {genesis_hash, main_prev_hash(c)}
        \cup {c[i].hash : i \in {j \in {Len(c)} : j > 0 /\ "hash" \in DOMAIN c[j]}}

\* a block is made by add_vote, appended and the chain validated
Vote(candidate, prev_hash) ==
    /\ VoteCount(chain) < MaxAppends
    /\ chain' = Append(chain, add_vote(candidate, prev_hash))
    /\ pc' = "vote"
    /\ arg' = <<candidate, prev_hash>>
    /\ ret' = validate_chain(chain')
    /\ sequential' = (sequential /\
                        prev_hash = TailLink(SelectSeq(chain, IsVote)))
    /\ UNCHANGED <<local_chain, gist_chain, now>>
    /\ UNCHANGED mainvars

NextVote ==
    \/ Tick
    \/ \E e \in {MaxTime} : InsertMetadata(e)
    \/ \E v \in Votes : \E p \in PrevHashChoices(chain) : Vote(v, p)

SpecVote == InitVote /\ [][NextVote]_vars

(* -------------------------------- main -------------------------------- *)

\* the election end time load_chain finds in a chain, None when it has no
\* metadata block
load_end_time(c, otherwise) ==
    IF HasMetadata(c) THEN c[1].election_end_time ELSE otherwise

\* the replicas hold rightly linked and hashed vote blocks; offline, or
\* online with no gist holding the chain, the gist is not read
InitMain ==
    /\ chain = <<>>
    /\ \E n \in 0..MaxMerge : \E choices \in [1..n -> BlockChoices] :
          \E metadata \in MetadataChoices({1}) :
             /\ Linked(choices) /\ Ascending(choices)
             /\ local_chain = metadata \o BuildVotes(choices, n)
    /\ online \in BOOLEAN
    /\ \E n \in 0..MaxMerge : \E choices \in [1..n -> BlockChoices] :
          \E metadata \in MetadataChoices({1, 2}) :
             /\ Linked(choices) /\ Ascending(choices)
             /\ gist_chain = IF online THEN metadata \o BuildVotes(choices, n)
                             ELSE <<>>
    /\ now = 1
    /\ pc = "start"
    /\ arg = <<>>
    /\ ret = Return(<<>>)
    /\ sequential = FALSE
    /\ ELECTION_END_TIME = None
    /\ validated = {}

\* the chains are loaded and merged, and synced when online; sync writes the
\* merged chain to the local file unless it fails before
Load(failure) ==
    /\ pc = "start"
    /\ failure # "none" => online
    /\ LET merged == merge_chains(local_chain, gist_chain).value
           left == merge_leaves_local(local_chain, gist_chain, merged)
           synced == sync_local_chain(TRUE, left, gist_chain, failure)
       IN /\ chain' = IF online THEN synced.result.value ELSE merged
          /\ local_chain' = IF online /\ failure \in {"none", "log"}
                            THEN synced.result.value ELSE local_chain
    /\ ELECTION_END_TIME' =
          load_end_time(local_chain, load_end_time(gist_chain, None))
    /\ pc' = "loaded"
    /\ arg' = failure
    /\ UNCHANGED <<gist_chain, now, ret, sequential, validated, online>>

\* main is run without --elec: it ends there on a chain of at most one block
NoElec ==
    /\ pc = "loaded"
    /\ pc' = IF Len(chain) <= 1 THEN "done" ELSE "ready"
    /\ UNCHANGED <<chain, local_chain, gist_chain, now, arg, ret, sequential>>
    /\ UNCHANGED mainvars

\* main is run with --elec and a time e. parse_election_end_time accepts a
\* relative time (now + delta) and an absolute time after now; it refuses an
\* absolute time not after now, the global assigned all the same, and main
\* ends
Elec(e, relative) ==
    /\ pc = "loaded"
    /\ relative => e >= now
    /\ ELECTION_END_TIME' = e
    /\ IF ~relative /\ e <= now
       THEN pc' = "done" /\ chain' = chain
       ELSE /\ pc' = "ready"
            /\ chain' = IF Len(chain) <= 1 /\ ~HasMetadata(chain)
                        THEN <<Metadata(e)>> \o chain ELSE chain
    /\ arg' = e
    /\ UNCHANGED <<local_chain, gist_chain, now, ret, sequential, validated, online>>

\* scan_and_vote: <<candidate>> for the candidate of the QR code, or <<>>
\* for None after the end of the election
scan_and_vote(candidate) ==
    IF ELECTION_END_TIME # None /\ now > ELECTION_END_TIME
    THEN <<>> ELSE <<candidate>>

\* --scan: the QR code is read; main goes on with a candidate that is
\* neither None nor empty
Scan(candidate) ==
    /\ pc = "ready"
    /\ arg' = scan_and_vote(candidate)
    /\ pc' = IF arg' = <<>> \/ arg' = <<"">> THEN "done" ELSE "scanned"
    /\ UNCHANGED <<chain, local_chain, gist_chain, now, ret, sequential>>
    /\ UNCHANGED mainvars

\* --scan: the block of the scanned candidate is made and appended
AppendScanned ==
    /\ pc = "scanned"
    /\ chain' = Append(chain, add_vote(arg[1], main_prev_hash(chain)))
    /\ pc' = "appended"
    /\ UNCHANGED <<local_chain, gist_chain, now, arg, ret, sequential>>
    /\ UNCHANGED mainvars

\* no command: the vote typed in is one of the allowed candidates, and its
\* block is made and appended
InteractiveVote(vote) ==
    /\ pc = "ready"
    /\ chain' = Append(chain, add_vote(vote, main_prev_hash(chain)))
    /\ pc' = "appended"
    /\ arg' = vote
    /\ UNCHANGED <<local_chain, gist_chain, now, ret, sequential>>
    /\ UNCHANGED mainvars

\* --prune: an exception of prune_chain ends main
PruneCommand(vote_to_remove) ==
    /\ pc = "ready"
    /\ ret' = prune_chain(chain, vote_to_remove)
    /\ IF ret'.raised
       THEN pc' = "raised" /\ chain' = chain
       ELSE pc' = "pruned" /\ chain' = ret'.value
    /\ arg' = vote_to_remove
    /\ UNCHANGED <<local_chain, gist_chain, now, sequential>>
    /\ UNCHANGED mainvars

\* save_chain writes the local file, then the gist when online; a failure
\* leaves what was not yet written
save_chain(written) ==
    /\ pc \in {"appended", "pruned"}
    /\ written \in {"none", "local"} \cup (IF online THEN {"both"} ELSE {})
    /\ local_chain' = IF written = "none" THEN local_chain ELSE chain
    /\ gist_chain' = IF written = "both" THEN chain ELSE gist_chain
    /\ pc' = "saved"
    /\ UNCHANGED <<chain, now, arg, ret, sequential>>
    /\ UNCHANGED mainvars

\* the chain is validated after save_chain has returned
ValidateSaved ==
    /\ pc = "saved"
    /\ ret' = validate_chain(chain)
    /\ validated' = validated \cup {chain}
    /\ pc' = "done"
    /\ UNCHANGED <<chain, local_chain, gist_chain, now, arg, sequential,
                   ELECTION_END_TIME, online>>

NextMain ==
    \/ Tick
    \/ \E failure \in SyncFailures : Load(failure)
    \/ NoElec
    \/ \E e \in Timestamps, relative \in BOOLEAN : Elec(e, relative)
    \/ \E candidate \in Votes \cup {""} : Scan(candidate)
    \/ AppendScanned
    \/ \E vote \in Votes : InteractiveVote(vote)
    \/ \E vote_to_remove \in Votes : PruneCommand(vote_to_remove)
    \/ \E written \in {"none", "local", "both"} : save_chain(written)
    \/ ValidateSaved

SpecMain == InitMain /\ [][NextMain]_vars

(* --------------------- the chain invariants I1-I4 --------------------- *)

\* the vote blocks of a chain, in chain order
VoteBlocks(c) == SelectSeq(c, IsVote)

\* the (vote, timestamp) keys of the vote blocks of a chain, in chain order
KeySeq(c) == [i \in 1..Len(VoteBlocks(c)) |-> block_key(VoteBlocks(c)[i])]

\* the canonical digest of a block: the digest of its fields other than hash
Digest(block) == hash_block(Pop(block, "hash"))

\* I1: every vote block after the first is linked to the one before it
I1(c) ==
    \A i \in 2..Len(VoteBlocks(c)) :
        VoteBlocks(c)[i].prev_hash = VoteBlocks(c)[i - 1].hash

\* I2: the first vote block is linked to the sentinel
I2(c) == VoteBlocks(c) # <<>> => VoteBlocks(c)[1].prev_hash = genesis_hash

\* I3: the hash of every vote block is its canonical digest
I3(c) ==
    \A i \in 1..Len(VoteBlocks(c)) :
        VoteBlocks(c)[i].hash = Digest(VoteBlocks(c)[i])

\* I4: no two vote blocks carry the same (vote, timestamp)
I4(c) ==
    \A i, j \in 1..Len(VoteBlocks(c)) : i # j => KeySeq(c)[i] # KeySeq(c)[j]

(* ------------------------------- properties ------------------------------*)

\* C1: for every chain and every vote value, prune_chain returns a chain
\* that validate_chain reports valid.
PruneValidates ==
    pc = "prune" => ~ret.raised /\ validate_chain(ret.value).is_valid

\* C2: for every chain and every vote value v, no vote block of
\* prune_chain's result has vote v, and the vote blocks of the chain whose
\* vote differs from v all survive, in their original order.
PruneRemovesExactly ==
    pc = "prune" =>
        /\ ~ret.raised
        /\ \A i \in 1..Len(VoteBlocks(ret.value)) :
              VoteBlocks(ret.value)[i].vote # arg
        /\ KeySeq(ret.value)
              = SelectSeq(KeySeq(chain), LAMBDA key : key[1] # arg)

\* C3: validate_chain reports a chain valid exactly when its vote blocks
\* satisfy I1, I2 and I3.
ValidateIffInvariants ==
    pc = "validate" => (ret.is_valid <=> I1(chain) /\ I2(chain) /\ I3(chain))

\* the number validate_chain's messages should give the vote block at
\* position i of a chain: its 1-based position among the vote blocks
VoteIndex(c, i) == Len(VoteBlocks(SubSeq(c, 1, i)))

\* C4: after any single field of any one vote block of a chain that validated
\* is changed, validate_chain reports the chain invalid with the message
\* 'Invalid hash' and that block's index.
TamperDetected ==
    pc = "tamper" =>
        ret = Verdict(FALSE, "Invalid hash at block "
                                \o ToString(VoteIndex(chain, arg[1])))

\* C5: from the empty chain, after every append of add_vote(v, p) with p the
\* sentinel when the chain holds no vote block and the hash of the last block
\* otherwise, validate_chain reports the chain valid.
SequentialAppendValidates ==
    pc = "vote" /\ sequential => ret.is_valid

\* the (vote, timestamp) keys carried by the vote blocks of a chain
Keys(c) == {KeySeq(c)[i] : i \in 1..Len(KeySeq(c))}

\* the number of vote blocks of a chain that carry a key
Carriers(c, key) == Cardinality({i \in 1..Len(KeySeq(c)) : KeySeq(c)[i] = key})

\* C6: every (vote, timestamp) pair carried by a vote block of either input
\* of merge_chains is carried by exactly one vote block of the output, which
\* carries no other pair.
MergeComplete ==
    pc = "merge" =>
        /\ ~ret.raised
        /\ \A key \in Keys(local_chain) \cup Keys(gist_chain) :
              Carriers(ret.value, key) = 1
        /\ Keys(ret.value) \subseteq Keys(local_chain) \cup Keys(gist_chain)

\* C7: in the output of merge_chains the first vote block is linked to the
\* sentinel and every later vote block to the vote block right before it.
MergeLinked ==
    pc = "merge" => ~ret.raised /\ I1(ret.value) /\ I2(ret.value)

\* the blocks of a chain
Blocks(c) == {c[i] : i \in 1..Len(c)}

\* a merge whose output has a first and a second vote block that both had to
\* be relinked: neither is a block of an input as it stood
MergeRelinked ==
    /\ pc = "merge"
    /\ ~ret.raised
    /\ Len(VoteBlocks(ret.value)) >= 2
    /\ \A i \in 1..2 :
          VoteBlocks(ret.value)[i] \notin Blocks(local_chain) \cup Blocks(gist_chain)

\* C8: when an input of merge_chains starts with a metadata block, the
\* output starts with one, the gist's if the gist has one and the local
\* chain's otherwise, and holds no metadata block anywhere else.
MergeKeepsMetadata ==
    pc = "merge" =>
        /\ ~ret.raised
        /\ HasMetadata(local_chain) \/ HasMetadata(gist_chain) =>
              /\ HasMetadata(ret.value)
              /\ ret.value[1] = IF HasMetadata(gist_chain) THEN gist_chain[1]
                                ELSE local_chain[1]
        /\ \A i \in 2..Len(ret.value) : ~IsMetadata(ret.value[i])

\* the vote blocks of a chain are in ascending timestamp order
TimestampsAscending(c) ==
    \A i \in 2..Len(VoteBlocks(c)) :
        VoteBlocks(c)[i - 1].timestamp <= VoteBlocks(c)[i].timestamp

\* C9: merge_chains(C, C) is C for every chain C that satisfies I1-I4 and
\* has its vote blocks in ascending timestamp order.
MergeIdempotent ==
    /\ pc = "merge"
    /\ local_chain = gist_chain
    /\ I1(local_chain) /\ I2(local_chain) /\ I3(local_chain) /\ I4(local_chain)
    /\ TimestampsAscending(local_chain)
    => ret = Return(local_chain)

\* a chain that satisfies I1-I4, with a metadata block and two vote blocks of
\* one timestamp, was merged with itself
MergedWithItself ==
    /\ pc = "merge"
    /\ local_chain = gist_chain
    /\ I1(local_chain) /\ I2(local_chain) /\ I3(local_chain) /\ I4(local_chain)
    /\ TimestampsAscending(local_chain)
    /\ HasMetadata(local_chain)
    /\ Len(VoteBlocks(local_chain)) = 2
    /\ VoteBlocks(local_chain)[1].timestamp = VoteBlocks(local_chain)[2].timestamp

\* the position of the first vote block of a chain that carries a key
FirstCarrier(c, key) ==
    CHOOSE i \in 1..Len(KeySeq(c)) :
        /\ KeySeq(c)[i] = key
        /\ \A j \in 1..(i - 1) : KeySeq(c)[j] # key

\* C10: the vote blocks of the output of merge_chains are in ascending
\* timestamp order; among those of one timestamp, the blocks the gist chain
\* carries come before the blocks only the local chain carries, and the
\* blocks of each of the two groups are in the order of their chain.
MergeOrdered ==
    pc = "merge" =>
        /\ ~ret.raised
        /\ TimestampsAscending(ret.value)
        /\ \A i, j \in 1..Len(KeySeq(ret.value)) :
              LET ki == KeySeq(ret.value)[i]
                  kj == KeySeq(ret.value)[j]
              IN  i < j /\ ki[2] = kj[2] =>
                    /\ ~(ki \notin Keys(gist_chain) /\ kj \in Keys(gist_chain))
                    /\ ki \in Keys(gist_chain) /\ kj \in Keys(gist_chain) =>
                          FirstCarrier(gist_chain, ki) < FirstCarrier(gist_chain, kj)
                    /\ ki \notin Keys(gist_chain) /\ kj \notin Keys(gist_chain) =>
                          FirstCarrier(local_chain, ki) < FirstCarrier(local_chain, kj)

\* the vote block at position i of the vote blocks of a chain breaks I1, I2
\* or I3
Offends(c, i) ==
    \/ i = 1 /\ VoteBlocks(c)[i].prev_hash # genesis_hash
    \/ i > 1 /\ VoteBlocks(c)[i].prev_hash # VoteBlocks(c)[i - 1].hash
    \/ VoteBlocks(c)[i].hash # Digest(VoteBlocks(c)[i])

Offenders(c) == {i \in 1..Len(VoteBlocks(c)) : Offends(c, i)}

FirstOffender(c) == CHOOSE i \in Offenders(c) : \A j \in Offenders(c) : i <= j

\* the failures validate_chain can report for vote block i
FailuresAt(i) ==
    {Verdict(FALSE, "Invalid previous hash at block " \o ToString(i)),
     Verdict(FALSE, "Invalid hash at block " \o ToString(i))}
        \cup IF i = 1 THEN {Verdict(FALSE, "Invalid genesis hash at block 1")}
             ELSE {}

\* C11: when vote blocks of a chain break I1-I3, validate_chain reports the
\* failure of the one with the lowest index; a wrong genesis link of the first
\* vote block is reported before any failure of a later block.
ValidateReportsFirst ==
    pc = "validate" /\ Offenders(chain) # {} =>
        ret \in FailuresAt(FirstOffender(chain))

\* C13: merge_chains, prune_chain and get_vote_counts return normally for
\* every chain whose vote blocks all carry vote, timestamp, prev_hash and
\* hash, with or without a metadata block.
NoExceptionEscapes ==
    pc \in {"merge", "prune", "counts"} => ~ret.raised

\* the count of every vote carried by a vote block of a chain
Tally(c) ==
    [v \in {VoteBlocks(c)[i].vote : i \in 1..Len(VoteBlocks(c))} |->
        Cardinality({i \in 1..Len(VoteBlocks(c)) : VoteBlocks(c)[i].vote = v})]

\* C14: get_vote_counts maps every vote carried by a vote block of the chain
\* to the number of vote blocks that carry it, and has no other entry.
CountsAreTally ==
    pc = "counts" => ret = Return(Tally(chain))

\* C19: after prune_chain the first surviving vote block is linked to the
\* sentinel and every later one to the survivor before it; pruning v from a
\* chain [v, w, v] without a metadata block leaves the block of w alone,
\* linked to the sentinel.
PruneRelinks ==
    pc = "prune" =>
        /\ ~ret.raised
        /\ I1(ret.value) /\ I2(ret.value)
        /\ (/\ ~HasMetadata(chain)
            /\ Len(chain) = 3
            /\ chain[1].vote = arg /\ chain[2].vote # arg /\ chain[3].vote = arg)
           => /\ Len(ret.value) = 1
              /\ ret.value[1].vote = chain[2].vote
              /\ ret.value[1].prev_hash = genesis_hash

\* some element at a vote position of a chain lacks a field of a vote block
Defective(c) == \E i \in VotePositions(c) : ~(BlockFields \subseteq DOMAIN c[i])

\* C12: validate_chain returns a verdict for every chain, and the verdict is
\* invalid for every chain with an element at a vote position that lacks one
\* of vote, timestamp, prev_hash and hash, chains of a single element and
\* elements without vote included.
DefectiveInvalid ==
    pc = "validate" /\ Defective(chain) =>
        ~ret.is_valid

\* C17: add_vote makes no block for a vote that is empty once its whitespace
\* is trimmed: every block it returns has a vote that is not empty.
AddVoteRejectsEmpty ==
    pc = "add_vote" => ret.raised \/ strip(ret.value.vote) # ""

\* C18: add_vote returns a block with the fields vote, timestamp, prev_hash
\* and hash and no other, whose vote and prev_hash are the arguments and whose
\* hash is hash_block of its vote, timestamp and prev_hash; the call leaves
\* every chain as it was.
AddVoteMakesBlock ==
    [][pc' = "add_vote" =>
          /\ ~ret'.raised
          /\ DOMAIN ret'.value = BlockFields
          /\ ret'.value.vote = arg'[1]
          /\ ret'.value.prev_hash = arg'[2]
          /\ ret'.value.hash =
                hash_block([vote |-> ret'.value.vote,
                            timestamp |-> ret'.value.timestamp,
                            prev_hash |-> ret'.value.prev_hash])
          /\ chain' = chain
          /\ local_chain' = local_chain
          /\ gist_chain' = gist_chain]_vars

\* add_vote has made a block to follow the last block of a chain
AddVoteCalled ==
    /\ pc = "add_vote"
    /\ VoteBlocks(chain) # <<>>
    /\ arg = <<"A", main_prev_hash(chain)>>
    /\ ret.value.timestamp = MaxTime

\* C20: when a step of sync_local_chain fails, the call raises nothing and
\* returns the local chain with every field of every block as it was before
\* the call.
SyncFailureKeepsLocal ==
    [][(pc' = "sync" /\ arg'[1] /\ arg'[2] # "none") =>
          ~ret'.raised /\ ret'.value = local_chain]_vars

\* C15: in a run of main no vote block is made and appended, by --scan or by
\* a vote typed in, at a time later than the election end time in force.
NoVoteAfterEnd ==
    pc = "appended" =>
        \/ ELECTION_END_TIME = None
        \/ chain[Len(chain)].timestamp <= ELECTION_END_TIME

\* C16: in a run of main that appends a vote or prunes, validate_chain has
\* been applied to the resulting chain when save_chain hands it to storage.
ValidatedBeforeSave ==
    pc = "saved" => chain \in validated

\* C21: after prune_chain of a chain whose vote blocks carried their digest,
\* the hash of every surviving vote block is hash_block of its vote, its
\* timestamp and its new prev_hash, the hash entry left out of the digest
\* input.
PruneDigests ==
    pc = "prune" /\ ~ret.raised /\ I3(chain) => I3(ret.value)

\* the vote blocks the inputs of merge_chains hold
InputBlocks == Blocks(VoteBlocks(local_chain)) \cup Blocks(VoteBlocks(gist_chain))

\* C22: merge_chains changes no vote, timestamp or hash: every vote block of
\* the output is a vote block of an input with the same (vote, timestamp), but
\* for its prev_hash, the only field that may differ.
MergeChangesLinksOnly ==
    pc = "merge" =>
        /\ ~ret.raised
        /\ \A b \in Blocks(VoteBlocks(ret.value)) :
              \E b0 \in InputBlocks : Pop(b, "prev_hash") = Pop(b0, "prev_hash")

\* a merge of two replicas that both hold vote blocks, whose output holds a
\* block that is in neither input as it stands there: it was relinked
MergeChangedLink ==
    /\ pc = "merge"
    /\ ~ret.raised
    /\ VoteBlocks(local_chain) # <<>> /\ VoteBlocks(gist_chain) # <<>>
    /\ \E b \in Blocks(VoteBlocks(ret.value)) : b \notin InputBlocks

\* the positions, among the vote blocks of a chain, of the blocks whose hash
\* was computed over another prev_hash than the one they carry
Stale(c) == {i \in 1..Len(VoteBlocks(c)) :
                VoteBlocks(c)[i].hash # Digest(VoteBlocks(c)[i])}

FirstStale(c) == CHOOSE i \in Stale(c) : \A j \in Stale(c) : i <= j

\* C23: when merge_chains, given two chains that validate, leaves a vote
\* block, the first included, with a prev_hash its hash was not computed
\* over, validate_chain reports the merged chain invalid by the digest of
\* that block; it never reports such a chain valid.
MergeStaleDetected ==
    /\ pc = "merge"
    /\ ~ret.raised
    /\ validate_chain(local_chain).is_valid
    /\ validate_chain(gist_chain).is_valid
    /\ Stale(ret.value) # {}
    => validate_chain(ret.value)
          = Verdict(FALSE, "Invalid hash at block "
                              \o ToString(FirstStale(ret.value)))

\* C24: when scan_and_vote compares the time with ELECTION_END_TIME in a run
\* of main, ELECTION_END_TIME is the election_end_time of the metadata block
\* of the chain the vote is to be appended to, whatever metadata the local
\* chain and the gist hold and whether or not --elec was given.
CutoffIsChainEndTime ==
    [][(pc = "ready" /\ pc' \in {"scanned", "done"}
            /\ ELECTION_END_TIME # None)
          => load_end_time(chain, None) = ELECTION_END_TIME]_vars

====
